---------------------------- MODULE Spec2Model ----------------------------
(***************************************************************************)
(* A model of awair-local-prom-exporter (src/main.go): the main goroutine  *)
(* (lifecycle), the poller goroutine (recordMetrics / getAwairData), the   *)
(* metrics server goroutine (ListenAndServe), scrapes of /metrics, the     *)
(* ticker and the termination signal.                                      *)
(*                                                                         *)
(* Numbers with a fraction are records [int, frac] (one decimal digit):    *)
(* 21.5 is [int |-> 21, frac |-> 5].  A Go int is an integer; float64(n)   *)
(* is [int |-> n, frac |-> 0].                                             *)
(***************************************************************************)
EXTENDS Integers, Sequences, FiniteSets, TLC

(***************************************************************************)
(* Data: AwairStats, the JSON bodies, json.Unmarshal                       *)
(***************************************************************************)

\* A float64 value.
F(i, f) == [int |-> i, frac |-> f]

\* The zero value of float64, the value of a new Gauge.
FloatZero == F(0, 0)

\* float64(n) of an int n.
Float64(n) == F(n, 0)

\* JSON values of an object's members.
JNum(i, f) == [t |-> "number", int |-> i, frac |-> f, s |-> ""]
JStr(str) == [t |-> "string", int |-> 0, frac |-> 0, s |-> str]

\* The fields of AwairStats that feed a gauge, with their json key and type.
StatsFields ==
  << [name |-> "Score",          key |-> "score",            type |-> "int"],
     [name |-> "DewPoint",       key |-> "dew_point",        type |-> "float64"],
     [name |-> "Temp",           key |-> "temp",             type |-> "float64"],
     [name |-> "Humid",          key |-> "humid",            type |-> "float64"],
     [name |-> "AbsHumid",       key |-> "abs_humid",        type |-> "float64"],
     [name |-> "Co2",            key |-> "co2",              type |-> "int"],
     [name |-> "Co2Est",         key |-> "co2_est",          type |-> "int"],
     [name |-> "Co2EstBaseline", key |-> "co2_est_baseline", type |-> "int"],
     [name |-> "Voc",            key |-> "voc",              type |-> "int"],
     [name |-> "VocBaseline",    key |-> "voc_baseline",     type |-> "int"],
     [name |-> "VocH2Raw",       key |-> "voc_h2_raw",       type |-> "int"],
     [name |-> "VocEthanolRaw",  key |-> "voc_ethanol_raw",  type |-> "int"],
     [name |-> "Pm25",           key |-> "pm25",             type |-> "int"],
     [name |-> "Pm10Est",        key |-> "pm10_est",         type |-> "int"] >>

FieldNames == { StatsFields[i].name : i \in 1..Len(StatsFields) }

FieldOf(name) == CHOOSE fd \in { StatsFields[i] : i \in 1..Len(StatsFields) } : fd.name = name

\* The zero value of a field's Go type.
ZeroOf(type) == IF type = "int" THEN 0 ELSE FloatZero

\* AwairStats{}: every field at its zero value (Timestamp is the zero time).
ZeroStats == [ n \in FieldNames \cup {"Timestamp"} |->
                 IF n = "Timestamp" THEN "" ELSE ZeroOf(FieldOf(n).type) ]

\* The timestamps time.Time's UnmarshalJSON accepts (RFC 3339).
RFC3339 == { "2021-03-01T12:00:00.000Z" }

\* Whether JSON value v can be stored in a Go field of the given type.
Assignable(v, type) ==
  CASE type = "int"     -> v.t = "number" /\ v.frac = 0
    [] type = "float64" -> v.t = "number"
    [] type = "time"    -> v.t = "string" /\ v.s \in RFC3339

\* The Go value JSON value v decodes to.
Decoded(v, type) ==
  CASE type = "int"     -> v.int
    [] type = "float64" -> F(v.int, v.frac)
    [] type = "time"    -> v.s

TypeOf(n) == IF n = "Timestamp" THEN "time" ELSE FieldOf(n).type
KeyOf(n) == IF n = "Timestamp" THEN "timestamp" ELSE FieldOf(n).key

\* json.Unmarshal(body, &target): [err, stats].  A member with an unknown key
\* is ignored, an absent key leaves the target's value, a member of the wrong
\* type is an error (its field is left alone), JSON null decodes to nothing.
Unmarshal(body, target) ==
  CASE body.kind = "malformed" -> [err |-> TRUE, stats |-> target]
    [] body.kind = "null"      -> [err |-> FALSE, stats |-> target]
    [] body.kind = "object"    ->
         LET m == body.members
             present(n) == KeyOf(n) \in DOMAIN m
             bad == \E n \in DOMAIN target :
                       present(n) /\ ~Assignable(m[KeyOf(n)], TypeOf(n))
         IN  [err |-> bad,
              stats |-> [ n \in DOMAIN target |->
                            IF present(n) /\ Assignable(m[KeyOf(n)], TypeOf(n))
                              THEN Decoded(m[KeyOf(n)], TypeOf(n))
                              ELSE target[n] ]]

\* The Set calls of getAwairData, in order: gauge, field, and whether the
\* field is cast with float64().
GaugeSets ==
  << [gauge |-> "TempGauge",                 field |-> "Temp",           cast |-> FALSE],
     [gauge |-> "HumidityGauge",             field |-> "Humid",          cast |-> FALSE],
     [gauge |-> "Co2Gauge",                  field |-> "Co2",            cast |-> TRUE],
     [gauge |-> "VOCGauge",                  field |-> "Voc",            cast |-> TRUE],
     [gauge |-> "PM25Gauge",                 field |-> "Pm25",           cast |-> TRUE],
     [gauge |-> "ScoreGauge",                field |-> "Score",          cast |-> TRUE],
     [gauge |-> "DewPointGauge",             field |-> "DewPoint",       cast |-> FALSE],
     [gauge |-> "AbsoluteHumidityGauge",     field |-> "AbsHumid",       cast |-> FALSE],
     [gauge |-> "Co2EstimateGauge",          field |-> "Co2Est",         cast |-> TRUE],
     [gauge |-> "Co2EstimateBaselinesGauge", field |-> "Co2EstBaseline", cast |-> TRUE],
     [gauge |-> "VOCBaselineGauge",          field |-> "VocBaseline",    cast |-> TRUE],
     [gauge |-> "VOCH2RawGauge",             field |-> "VocH2Raw",       cast |-> TRUE],
     [gauge |-> "VocEthanolRawGauge",        field |-> "VocEthanolRaw",  cast |-> TRUE],
     [gauge |-> "Pm10EstimateGauge",         field |-> "Pm10Est",        cast |-> TRUE] >>

NumGauges == Len(GaugeSets)

\* initializeGauges: the gauge fields of App in the order they are created,
\* each with the Name of its GaugeOpts (namespace awair, subsystem climate).
GaugeOpts ==
  << [gauge |-> "TempGauge",                 name |-> "temp_c"],
     [gauge |-> "HumidityGauge",             name |-> "relative_humidity"],
     [gauge |-> "Co2Gauge",                  name |-> "co2_ppm"],
     [gauge |-> "VOCGauge",                  name |-> "voc_ppb"],
     [gauge |-> "PM25Gauge",                 name |-> "pm25_ug_m3"],
     [gauge |-> "ScoreGauge",                name |-> "score"],
     [gauge |-> "DewPointGauge",             name |-> "dew_point_c"],
     [gauge |-> "AbsoluteHumidityGauge",     name |-> "absolute_humidity"],
     [gauge |-> "Co2EstimateGauge",          name |-> "co2_estimate"],
     [gauge |-> "Co2EstimateBaselinesGauge", name |-> "co2_estimate_baselines"],
     [gauge |-> "VOCBaselineGauge",          name |-> "voc_baseline"],
     [gauge |-> "VOCH2RawGauge",             name |-> "voc_h2_raw"],
     [gauge |-> "VocEthanolRawGauge",        name |-> "voc_ethanol_raw"],
     [gauge |-> "Pm10EstimateGauge",         name |-> "pm10_estimate"] >>

\* The gauge fields of App.
GaugeSet == { GaugeOpts[i].gauge : i \in 1..Len(GaugeOpts) }

\* The metric names initializeGauges registers.
MetricNames == { GaugeOpts[i].name : i \in 1..Len(GaugeOpts) }

\* A faulty variant of SetValue: Co2Gauge is set from Voc.
SetValueMiswired(i, stats) ==
  IF GaugeSets[i].gauge = "Co2Gauge" THEN Float64(stats["Voc"])
  ELSE IF GaugeSets[i].cast THEN Float64(stats[GaugeSets[i].field])
  ELSE stats[GaugeSets[i].field]

\* The argument of the i-th Set call for the decoded stats.
SetValue(i, stats) ==
  IF GaugeSets[i].cast THEN Float64(stats[GaugeSets[i].field])
                       ELSE stats[GaugeSets[i].field]

(***************************************************************************)
(* Inputs: the responses the sensor endpoint may give                      *)
(***************************************************************************)

NoMembers == [ k \in {} |-> JStr("") ]

\* {"temp":21.5,"co2":612,"score":88}
BodyScenario ==
  [kind |-> "object",
   members |-> [ k \in {"temp", "co2", "score"} |->
                   CASE k = "temp"  -> JNum(21, 5)
                     [] k = "co2"   -> JNum(612, 0)
                     [] k = "score" -> JNum(88, 0) ]]

\* A full reading of the device, every field present and non-zero.
BodyFull ==
  [kind |-> "object",
   members |-> [ k \in { KeyOf(n) : n \in DOMAIN ZeroStats } |->
                   CASE k = "timestamp"        -> JStr("2021-03-01T12:00:00.000Z")
                     [] k = "score"            -> JNum(93, 0)
                     [] k = "dew_point"        -> JNum(9, 7)
                     [] k = "temp"             -> JNum(19, 4)
                     [] k = "humid"            -> JNum(53, 2)
                     [] k = "abs_humid"        -> JNum(8, 9)
                     [] k = "co2"              -> JNum(500, 0)
                     [] k = "co2_est"          -> JNum(405, 0)
                     [] k = "co2_est_baseline" -> JNum(36000, 0)
                     [] k = "voc"              -> JNum(120, 0)
                     [] k = "voc_baseline"     -> JNum(37000, 0)
                     [] k = "voc_h2_raw"       -> JNum(26, 0)
                     [] k = "voc_ethanol_raw"  -> JNum(38, 0)
                     [] k = "pm25"             -> JNum(3, 0)
                     [] k = "pm10_est"         -> JNum(4, 0) ]]

\* {"error":"not found"}: a JSON error body, no field of the reading.
BodyError ==
  [kind |-> "object", members |-> [ k \in {"error"} |-> JStr("not found") ]]

\* {"temp":20.0,"co2":"high"}: valid JSON, a member of the wrong type.
BodyMismatch ==
  [kind |-> "object",
   members |-> [ k \in {"temp", "co2"} |->
                   IF k = "temp" THEN JNum(20, 0) ELSE JStr("high") ]]

\* Not JSON (an HTML error page, a truncated body).
BodyMalformed == [kind |-> "malformed", members |-> NoMembers]

\* What the sensor endpoint answers: a reading, a body that does not decode,
\* or not found, with a JSON error body or an error page.
Responses ==
  [ status : {200}, body : {BodyScenario, BodyFull, BodyMismatch, BodyMalformed} ]
    \cup [ status : {404}, body : {BodyError, BodyMalformed} ]

NoResponse == [ status |-> 0, body |-> BodyMalformed ]

\* The responses of the runs that are about the life of the process, not
\* about the readings: a reading, and an error page.
LifecycleResponses ==
  { [status |-> 200, body |-> BodyScenario], [status |-> 404, body |-> BodyMalformed] }

\* time.NewTicker: the capacity of the ticker's channel.
TickerCap == 1

(***************************************************************************)
(* State                                                                   *)
(***************************************************************************)

VARIABLES
  mainPc,            \* where main is
  signalled,         \* _ctx is done: SIGINT or SIGKILL was notified
  groupErr,          \* the errgroup's first error ("" for nil)
  groupCancelled,    \* the errgroup cancelled gctx (first error, or Wait returned)
  inShutdown,        \* server.Shutdown was called
  handler,           \* http.Handle("/metrics", ...) was called
  registry,          \* the default registry: metric name -> times registered
  gauges,            \* gauge field of App -> value (no entry: the field is nil)
  awairAddressOk,    \* --awair-address parses as a URL
  pollerPc,          \* where the poller goroutine is
  resp,              \* the response of the poll in flight
  awairStats,        \* the record getAwairData decoded last
  setIdx,            \* Set calls the poll in flight has made
  tickerC,           \* ticks buffered in ticker.C
  inFlight,          \* calls of getAwairData that have not returned
  serverPc,          \* where the server goroutine is
  scrapePc,          \* "idle" or "gathering": the /metrics request in flight
  scrapeIdx,         \* gauges the request in flight has read
  scrapeFirst,       \* the first sample the request in flight has read
  scrapeLast,        \* the latest sample the request in flight has read
  gaugesAtPollStart, \* history: the gauges when the poll in flight started
  doneAtPollStart,   \* history: gctx was done when the poll in flight started
  decodedBodies,     \* history: the bodies of the polls that decoded
  lastPoll           \* history: "none", or how the latest poll ended: "ok", "failed"

vars ==
  << mainPc, signalled, groupErr, groupCancelled, inShutdown, handler, registry,
     gauges, awairAddressOk, pollerPc, resp, awairStats, setIdx, tickerC,
     inFlight, serverPc, scrapePc, scrapeIdx, scrapeFirst, scrapeLast,
     gaugesAtPollStart, doneAtPollStart, decodedBodies, lastPoll >>

mainVars == << mainPc, handler, registry, inShutdown >>
pollVars == << pollerPc, resp, awairStats, setIdx, inFlight >>
tickVars == << tickerC >>
scrapeVars == << scrapePc, scrapeIdx, scrapeFirst, scrapeLast >>
histVars == << gaugesAtPollStart, doneAtPollStart, decodedBodies, lastPoll >>

NoGauges == [ g \in {} |-> FloatZero ]

\* A sample of the exposition: a metric name and the value read for it.
Sample(n, v) == [name |-> n, value |-> v]

NoSample == Sample("", FloatZero)

\* gctx, the errgroup's context derived from _ctx, is done.
GctxDone == signalled \/ groupCancelled

\* The process runs: main has neither panicked nor returned.
Alive == mainPc \notin {"panicked", "exited"}

Init ==
  /\ mainPc = "newLogger"
  /\ signalled = FALSE
  /\ groupErr = ""
  /\ groupCancelled = FALSE
  /\ inShutdown = FALSE
  /\ handler = FALSE
  /\ registry = [ m \in MetricNames |-> 0 ]
  /\ gauges = NoGauges
  /\ awairAddressOk \in BOOLEAN
  /\ pollerPc = "notStarted"
  /\ resp = NoResponse
  /\ awairStats = ZeroStats
  /\ setIdx = 0
  /\ tickerC = 0
  /\ inFlight = 0
  /\ serverPc = "notStarted"
  /\ scrapePc = "idle"
  /\ scrapeIdx = 0
  /\ scrapeFirst = NoSample
  /\ scrapeLast = NoSample
  /\ gaugesAtPollStart = NoGauges
  /\ doneAtPollStart = FALSE
  /\ decodedBodies = {}
  /\ lastPoll = "none"

(***************************************************************************)
(* The environment: the termination signal                                 *)
(***************************************************************************)

\* SIGINT or SIGKILL is notified: signal.NotifyContext cancels _ctx.
Signal ==
  /\ Alive
  /\ ~signalled
  /\ signalled' = TRUE
  /\ UNCHANGED << groupErr, groupCancelled, gauges, awairAddressOk, serverPc >>
  /\ UNCHANGED << mainVars, pollVars, tickVars, scrapeVars, histVars >>

(***************************************************************************)
(* main                                                                    *)
(***************************************************************************)

\* zap.NewProduction(): main panics on an error.
MainNewLogger ==
  /\ mainPc = "newLogger"
  /\ \/ mainPc' = "initializeGauges"
     \/ mainPc' = "panicked"
  /\ UNCHANGED << signalled, groupErr, groupCancelled, inShutdown, handler, registry,
                  gauges, awairAddressOk, serverPc >>
  /\ UNCHANGED << pollVars, tickVars, scrapeVars, histVars >>

\* A faulty variant of MainInitializeGauges: the last gauge is forgotten.
MainInitializeGaugesPartial ==
  /\ mainPc = "initializeGauges"
  /\ gauges' = [ g \in GaugeSet \ {"Pm10EstimateGauge"} |-> FloatZero ]
  /\ registry' = [ m \in MetricNames |->
                     IF m = "pm10_estimate" THEN registry[m] ELSE registry[m] + 1 ]
  /\ mainPc' = "handle"
  /\ UNCHANGED << signalled, groupErr, groupCancelled, inShutdown, handler,
                  awairAddressOk, serverPc >>
  /\ UNCHANGED << pollVars, tickVars, scrapeVars, histVars >>

\* app.initializeGauges(): fourteen promauto.NewGauge calls, each creating a
\* gauge at zero and registering it with the default registry.
MainInitializeGauges ==
  /\ mainPc = "initializeGauges"
  /\ gauges' = [ g \in GaugeSet |-> FloatZero ]
  /\ registry' = [ m \in MetricNames |->
                     registry[m] + Cardinality({ i \in 1..Len(GaugeOpts) : GaugeOpts[i].name = m }) ]
  /\ mainPc' = "handle"
  /\ UNCHANGED << signalled, groupErr, groupCancelled, inShutdown, handler,
                  awairAddressOk, serverPc >>
  /\ UNCHANGED << pollVars, tickVars, scrapeVars, histVars >>

\* http.Handle("/metrics", promhttp.Handler()).
MainHandle ==
  /\ mainPc = "handle"
  /\ handler' = TRUE
  /\ mainPc' = "goPoller"
  /\ UNCHANGED << signalled, groupErr, groupCancelled, inShutdown, registry, gauges,
                  awairAddressOk, serverPc >>
  /\ UNCHANGED << pollVars, tickVars, scrapeVars, histVars >>

\* group.Go(recordMetrics): the poller goroutine starts and creates its ticker.
MainGoPoller ==
  /\ mainPc = "goPoller"
  /\ pollerPc' = "select"
  /\ mainPc' = "goServer"
  /\ UNCHANGED << signalled, groupErr, groupCancelled, inShutdown, handler, registry,
                  gauges, awairAddressOk, serverPc, resp, awairStats, setIdx, inFlight >>
  /\ UNCHANGED << tickVars, scrapeVars, histVars >>

\* group.Go(ListenAndServe): the server goroutine starts.
MainGoServer ==
  /\ mainPc = "goServer"
  /\ serverPc' = "starting"
  /\ mainPc' = "awaitSignal"
  /\ UNCHANGED << signalled, groupErr, groupCancelled, inShutdown, handler, registry,
                  gauges, awairAddressOk >>
  /\ UNCHANGED << pollVars, tickVars, scrapeVars, histVars >>

\* <-_ctx.Done(): main waits for the signal context, not for gctx.
MainAwaitSignal ==
  /\ mainPc = "awaitSignal"
  /\ signalled
  /\ mainPc' = "shutdown"
  /\ UNCHANGED << signalled, groupErr, groupCancelled, inShutdown, handler, registry,
                  gauges, awairAddressOk, serverPc >>
  /\ UNCHANGED << pollVars, tickVars, scrapeVars, histVars >>

\* server.Shutdown(cancelCtx) is called: the server is marked as shutting
\* down and its listeners are closed.
MainShutdown ==
  /\ mainPc = "shutdown"
  /\ inShutdown' = TRUE
  /\ mainPc' = "draining"
  /\ UNCHANGED << signalled, groupErr, groupCancelled, handler, registry, gauges,
                  awairAddressOk, serverPc >>
  /\ UNCHANGED << pollVars, tickVars, scrapeVars, histVars >>

\* server.Shutdown returns: nil once no request is in flight, the context's
\* error after 5 s (logged).  Either way main goes on.
MainShutdownReturns ==
  /\ mainPc = "draining"
  /\ mainPc' = "wait"
  /\ UNCHANGED << signalled, groupErr, groupCancelled, inShutdown, handler, registry,
                  gauges, awairAddressOk, serverPc >>
  /\ UNCHANGED << pollVars, tickVars, scrapeVars, histVars >>

\* A faulty variant of MainGroupWait: the poller was started with a plain go
\* statement, so Wait waits for the server goroutine alone.
MainGroupWaitServerOnly ==
  /\ mainPc = "wait"
  /\ serverPc = "returned"
  /\ groupCancelled' = TRUE
  /\ mainPc' = "logComplete"
  /\ UNCHANGED << signalled, groupErr, inShutdown, handler, registry, gauges,
                  awairAddressOk, serverPc >>
  /\ UNCHANGED << pollVars, tickVars, scrapeVars, histVars >>

\* group.Wait() returns once both goroutines have returned, and cancels gctx.
MainGroupWait ==
  /\ mainPc = "wait"
  /\ pollerPc = "returned"
  /\ serverPc = "returned"
  /\ groupCancelled' = TRUE
  /\ mainPc' = "logComplete"
  /\ UNCHANGED << signalled, groupErr, inShutdown, handler, registry, gauges,
                  awairAddressOk, serverPc >>
  /\ UNCHANGED << pollVars, tickVars, scrapeVars, histVars >>

\* "Shutdown complete" is logged and main returns: the process exits.
MainLogComplete ==
  /\ mainPc = "logComplete"
  /\ mainPc' = "exited"
  /\ UNCHANGED << signalled, groupErr, groupCancelled, inShutdown, handler, registry,
                  gauges, awairAddressOk, serverPc >>
  /\ UNCHANGED << pollVars, tickVars, scrapeVars, histVars >>

MainStep ==
  \/ MainNewLogger
  \/ MainInitializeGauges
  \/ MainHandle
  \/ MainGoPoller
  \/ MainGoServer
  \/ MainAwaitSignal
  \/ MainShutdown
  \/ MainShutdownReturns
  \/ MainGroupWait
  \/ MainLogComplete

(***************************************************************************)
(* The ticker of recordMetrics                                             *)
(***************************************************************************)

\* A faulty variant of TickerSend: a channel that queues every tick.
TickerSendUnbounded(c) == c + 1

\* The ticker's send on its channel: a tick is dropped when the channel is full.
TickerSend(c) == IF c < TickerCap THEN c + 1 ELSE c

\* The ticker fires (from NewTicker to the deferred ticker.Stop()).
TickerFire ==
  /\ Alive
  /\ pollerPc \notin {"notStarted", "returned"}
  /\ tickerC' = TickerSend(tickerC)
  /\ UNCHANGED << signalled, groupErr, groupCancelled, gauges, awairAddressOk, serverPc >>
  /\ UNCHANGED << mainVars, pollVars, scrapeVars, histVars >>

(***************************************************************************)
(* The poller goroutine: recordMetrics and getAwairData                    *)
(***************************************************************************)

\* recordMetrics, case <-ticker.C: getAwairData(ctx) is called in the loop.
PollerTick ==
  /\ Alive
  /\ pollerPc = "select"
  /\ tickerC > 0
  /\ tickerC' = tickerC - 1
  /\ pollerPc' = "newRequest"
  /\ inFlight' = inFlight + 1
  /\ gaugesAtPollStart' = gauges
  /\ doneAtPollStart' = GctxDone
  /\ lastPoll' = "none"
  /\ UNCHANGED << signalled, groupErr, groupCancelled, gauges, awairAddressOk, serverPc,
                  resp, awairStats, setIdx, decodedBodies >>
  /\ UNCHANGED << mainVars, scrapeVars >>

\* recordMetrics, case <-ctx.Done(): return (and the deferred ticker.Stop()).
PollerDone ==
  /\ Alive
  /\ pollerPc = "select"
  /\ GctxDone
  /\ pollerPc' = "returned"
  /\ UNCHANGED << signalled, groupErr, groupCancelled, gauges, awairAddressOk, serverPc,
                  resp, awairStats, setIdx, inFlight >>
  /\ UNCHANGED << mainVars, tickVars, scrapeVars, histVars >>

\* A faulty variant of PollError: recordMetrics returns the error of
\* getAwairData to the errgroup, which cancels gctx.
PollErrorEscalates ==
  /\ pollerPc' = "returned"
  /\ inFlight' = inFlight - 1
  /\ resp' = NoResponse
  /\ lastPoll' = "failed"
  /\ gaugesAtPollStart' = NoGauges
  /\ doneAtPollStart' = FALSE
  /\ groupErr' = IF groupErr = "" THEN "poll failed" ELSE groupErr
  /\ groupCancelled' = TRUE
  /\ UNCHANGED << signalled, gauges, awairAddressOk, serverPc,
                  awairStats, setIdx, decodedBodies >>
  /\ UNCHANGED << mainVars, tickVars, scrapeVars >>

\* getAwairData logs an error and returns it; recordMetrics drops the result
\* and goes round its loop.
PollError ==
  /\ pollerPc' = "select"
  /\ inFlight' = inFlight - 1
  /\ resp' = NoResponse
  /\ lastPoll' = "failed"
  /\ gaugesAtPollStart' = NoGauges
  /\ doneAtPollStart' = FALSE
  /\ UNCHANGED << signalled, groupErr, groupCancelled, gauges, awairAddressOk, serverPc,
                  awairStats, setIdx, decodedBodies >>
  /\ UNCHANGED << mainVars, tickVars, scrapeVars >>

\* What no step of a poll that goes on changes.
PollGoesOn ==
  /\ UNCHANGED << signalled, groupErr, groupCancelled, awairAddressOk, serverPc,
                  inFlight, gaugesAtPollStart, doneAtPollStart, lastPoll >>
  /\ UNCHANGED << mainVars, tickVars, scrapeVars >>

\* http.NewRequestWithContext: an error when the address does not parse.
PollerNewRequest ==
  /\ Alive
  /\ pollerPc = "newRequest"
  /\ IF awairAddressOk
       THEN /\ pollerPc' = "do"
            /\ UNCHANGED << gauges, resp, awairStats, setIdx, decodedBodies >>
            /\ PollGoesOn
       ELSE PollError

\* A faulty variant of PollerDoResponseFrom: the request carries no context
\* (http.NewRequest), so Do answers also when gctx is done.
PollerDoResponseNoCtx(rs) ==
  /\ Alive
  /\ pollerPc = "do"
  /\ \E r \in rs : resp' = r
  /\ pollerPc' = "readAll"
  /\ UNCHANGED << gauges, awairStats, setIdx, decodedBodies >>
  /\ PollGoesOn

\* http.DefaultClient.Do(req) returns a response: the status line and the
\* headers have arrived before the context is done.
PollerDoResponseFrom(rs) ==
  /\ Alive
  /\ pollerPc = "do"
  /\ ~GctxDone
  /\ \E r \in rs : resp' = r
  /\ pollerPc' = "readAll"
  /\ UNCHANGED << gauges, awairStats, setIdx, decodedBodies >>
  /\ PollGoesOn

\* The sensor endpoint answers with any of Responses.
PollerDoResponse == PollerDoResponseFrom(Responses)

\* The sensor endpoint answers with one of LifecycleResponses.
PollerDoResponseL == PollerDoResponseFrom(LifecycleResponses)

\* http.DefaultClient.Do(req) returns an error: the endpoint is unreachable,
\* the 1 s timeout of the request's context expires, or gctx is done.
PollerDoError ==
  /\ Alive
  /\ pollerPc = "do"
  /\ PollError

\* ioutil.ReadAll(resp.Body) reads the body, or fails (the connection breaks,
\* the request's context ends while the body is read).
PollerReadAll ==
  /\ Alive
  /\ pollerPc = "readAll"
  /\ \/ /\ pollerPc' = "unmarshal"
        /\ UNCHANGED << gauges, resp, awairStats, setIdx, decodedBodies >>
        /\ PollGoesOn
     \/ PollError

\* A faulty variant of DecodeTarget: the record of the poll before is decoded into.
DecodeTargetReused(prev) == prev

\* awairStats := AwairStats{}: the record json.Unmarshal decodes into.
DecodeTarget(prev) == ZeroStats

\* A faulty variant of PollerUnmarshal: the return on the error is missing.
PollerUnmarshalNoReturn ==
  /\ Alive
  /\ pollerPc = "unmarshal"
  /\ LET u == Unmarshal(resp.body, DecodeTarget(awairStats))
     IN  /\ awairStats' = u.stats
         /\ setIdx' = 0
         /\ pollerPc' = "set"
         /\ decodedBodies' = IF u.err THEN decodedBodies ELSE decodedBodies \cup {resp.body}
         /\ UNCHANGED << gauges, resp >>
         /\ PollGoesOn

\* A faulty variant of PollerUnmarshal: a response that is not 2xx is an error.
PollerUnmarshalChecksStatus ==
  /\ Alive
  /\ pollerPc = "unmarshal"
  /\ LET u == Unmarshal(resp.body, DecodeTarget(awairStats))
     IN  IF u.err \/ resp.status \notin 200..299
           THEN PollError
           ELSE /\ awairStats' = u.stats
                /\ setIdx' = 0
                /\ pollerPc' = "set"
                /\ decodedBodies' = decodedBodies \cup {resp.body}
                /\ UNCHANGED << gauges, resp >>
                /\ PollGoesOn

\* json.Unmarshal(body, &awairStats), and the return on its error.
PollerUnmarshal ==
  /\ Alive
  /\ pollerPc = "unmarshal"
  /\ LET u == Unmarshal(resp.body, DecodeTarget(awairStats))
     IN  IF u.err
           THEN PollError
           ELSE /\ awairStats' = u.stats
                /\ setIdx' = 0
                /\ pollerPc' = "set"
                /\ decodedBodies' = decodedBodies \cup {resp.body}
                /\ UNCHANGED << gauges, resp >>
                /\ PollGoesOn

\* The next of the fourteen Set calls.
PollerSet ==
  /\ Alive
  /\ pollerPc = "set"
  /\ setIdx < NumGauges
  /\ gauges' = [ gauges EXCEPT ![GaugeSets[setIdx + 1].gauge] = SetValue(setIdx + 1, awairStats) ]
  /\ setIdx' = setIdx + 1
  /\ UNCHANGED << pollerPc, resp, awairStats, decodedBodies >>
  /\ PollGoesOn

\* The success is logged and getAwairData returns nil.
PollerReturn ==
  /\ Alive
  /\ pollerPc = "set"
  /\ setIdx = NumGauges
  /\ pollerPc' = "select"
  /\ inFlight' = inFlight - 1
  /\ resp' = NoResponse
  /\ lastPoll' = "ok"
  /\ setIdx' = 0
  /\ UNCHANGED awairStats
  /\ gaugesAtPollStart' = NoGauges
  /\ doneAtPollStart' = FALSE
  /\ UNCHANGED << signalled, groupErr, groupCancelled, gauges, awairAddressOk, serverPc,
                  decodedBodies >>
  /\ UNCHANGED << mainVars, tickVars, scrapeVars >>

\* The steps of a poll in flight.
PollerStep ==
  \/ PollerNewRequest
  \/ PollerDoResponse
  \/ PollerDoError
  \/ PollerReadAll
  \/ PollerUnmarshal
  \/ PollerSet
  \/ PollerReturn

\* The steps of a poll in flight, the sensor answering from LifecycleResponses.
PollerStepL ==
  \/ PollerNewRequest
  \/ PollerDoResponseL
  \/ PollerDoError
  \/ PollerReadAll
  \/ PollerUnmarshal
  \/ PollerSet
  \/ PollerReturn

(***************************************************************************)
(* The server goroutine and the requests of /metrics                       *)
(***************************************************************************)

\* server.ListenAndServe(): ErrServerClosed at once when Shutdown was called
\* (the goroutine returns nil); otherwise it binds and serves, or fails to
\* bind: the goroutine returns an error and the errgroup cancels gctx.
ServerListen ==
  /\ Alive
  /\ serverPc = "starting"
  /\ IF inShutdown
       THEN /\ serverPc' = "returned"
            /\ UNCHANGED << groupErr, groupCancelled >>
       ELSE \/ /\ serverPc' = "serving"
               /\ UNCHANGED << groupErr, groupCancelled >>
            \/ /\ serverPc' = "returned"
               /\ groupErr' = "failed to start server"
               /\ groupCancelled' = TRUE
  /\ UNCHANGED << signalled, gauges, awairAddressOk >>
  /\ UNCHANGED << mainVars, pollVars, tickVars, scrapeVars, histVars >>

\* ListenAndServe returns ErrServerClosed after Shutdown: the goroutine returns nil.
ServerClosed ==
  /\ Alive
  /\ serverPc = "serving"
  /\ inShutdown
  /\ serverPc' = "returned"
  /\ UNCHANGED << signalled, groupErr, groupCancelled, gauges, awairAddressOk >>
  /\ UNCHANGED << mainVars, pollVars, tickVars, scrapeVars, histVars >>

ServerStep == ServerListen \/ ServerClosed

\* GET /metrics is accepted: the handler starts to gather the registry.
ScrapeBegin ==
  /\ Alive
  /\ serverPc = "serving"
  /\ ~inShutdown
  /\ handler
  /\ scrapePc = "idle"
  /\ scrapePc' = "gathering"
  /\ UNCHANGED << scrapeIdx, scrapeFirst, scrapeLast >>
  /\ UNCHANGED << signalled, groupErr, groupCancelled, gauges, awairAddressOk, serverPc >>
  /\ UNCHANGED << mainVars, pollVars, tickVars, histVars >>

\* The handler reads the next registered gauge (an atomic load of its value)
\* and has its sample for the response.
ScrapeRead ==
  /\ Alive
  /\ scrapePc = "gathering"
  /\ scrapeIdx < Len(GaugeOpts)
  /\ LET o == GaugeOpts[scrapeIdx + 1]
         read == registry[o.name] > 0 /\ o.gauge \in DOMAIN gauges
         sample == Sample(o.name, gauges[o.gauge])
     IN  /\ scrapeLast' = IF read THEN sample ELSE scrapeLast
         /\ scrapeFirst' = IF read /\ scrapeFirst = NoSample THEN sample ELSE scrapeFirst
  /\ scrapeIdx' = scrapeIdx + 1
  /\ UNCHANGED scrapePc
  /\ UNCHANGED << signalled, groupErr, groupCancelled, gauges, awairAddressOk, serverPc >>
  /\ UNCHANGED << mainVars, pollVars, tickVars, histVars >>

\* The handler has read every gauge: it writes the response (200) and returns.
ScrapeEnd ==
  /\ Alive
  /\ scrapePc = "gathering"
  /\ scrapeIdx = Len(GaugeOpts)
  /\ scrapePc' = "idle"
  /\ scrapeIdx' = 0
  /\ scrapeFirst' = NoSample
  /\ scrapeLast' = NoSample
  /\ UNCHANGED << signalled, groupErr, groupCancelled, gauges, awairAddressOk, serverPc >>
  /\ UNCHANGED << mainVars, pollVars, tickVars, histVars >>

(***************************************************************************)
(* The specifications                                                      *)
(***************************************************************************)

Next ==
  \/ Signal
  \/ MainStep
  \/ TickerFire
  \/ PollerTick
  \/ PollerDone
  \/ PollerStep
  \/ ServerStep
  \/ ScrapeBegin
  \/ ScrapeRead
  \/ ScrapeEnd

Spec == Init /\ [][Next]_vars

\* The same program, the sensor answering from LifecycleResponses.
NextL ==
  \/ Signal
  \/ MainStep
  \/ TickerFire
  \/ PollerTick
  \/ PollerDone
  \/ PollerStepL
  \/ ServerStep
  \/ ScrapeBegin
  \/ ScrapeRead
  \/ ScrapeEnd

\* Every goroutine that can take a step takes one; a select with several
\* ready cases chooses among them at random, so the case <-ctx.Done() that is
\* ready again and again is taken.  Do and ReadAll return by the request's
\* 1 s deadline, Shutdown by its 5 s deadline.  Nothing is assumed of the
\* signal, the ticker, the sensor or the scraper.
Fairness ==
  /\ WF_vars(MainStep)
  /\ WF_vars(PollerStepL)
  /\ SF_vars(PollerDone)
  /\ WF_vars(ServerStep)

FairSpec == Init /\ [][NextL]_vars /\ Fairness

(***************************************************************************)
(* What the claims speak of                                                *)
(***************************************************************************)

\* The payload field behind each metric.
PayloadKey ==
  [ m \in MetricNames |->
      CASE m = "temp_c"                 -> "temp"
        [] m = "relative_humidity"      -> "humid"
        [] m = "co2_ppm"                -> "co2"
        [] m = "voc_ppb"                -> "voc"
        [] m = "pm25_ug_m3"             -> "pm25"
        [] m = "score"                  -> "score"
        [] m = "dew_point_c"            -> "dew_point"
        [] m = "absolute_humidity"      -> "abs_humid"
        [] m = "co2_estimate"           -> "co2_est"
        [] m = "co2_estimate_baselines" -> "co2_est_baseline"
        [] m = "voc_baseline"           -> "voc_baseline"
        [] m = "voc_h2_raw"             -> "voc_h2_raw"
        [] m = "voc_ethanol_raw"        -> "voc_ethanol_raw"
        [] m = "pm10_estimate"          -> "pm10_est" ]

\* The value a payload gives a metric: its field as a floating point number,
\* zero when the field is absent.
Expected(m, body) ==
  IF PayloadKey[m] \in DOMAIN body.members
    THEN F(body.members[PayloadKey[m]].int, body.members[PayloadKey[m]].frac)
    ELSE FloatZero

\* The gauges show the payload.
GaugesShow(body) ==
  \A i \in 1..Len(GaugeOpts) : gauges[GaugeOpts[i].gauge] = Expected(GaugeOpts[i].name, body)

\* The body decodes into an AwairStats.
Decodes(body) == ~Unmarshal(body, ZeroStats).err

\* getAwairData is before its first Set call.
BeforeSet == {"newRequest", "do", "readAll", "unmarshal"}

\* A poll is in flight.
InPoll == BeforeSet \cup {"set"}

\* A poll has made all its Set calls and has not returned yet.
AllSet == pollerPc = "set" /\ setIdx = NumGauges

(***************************************************************************)
(* The claims                                                              *)
(***************************************************************************)

\* C1: a poll that fails at any of its four failure points (request
\* construction, transport or timeout, body read, JSON decode) leaves every
\* gauge at the value it had before the poll: no gauge is set before the body
\* has decoded, a body that does not decode is never followed by a Set call,
\* and when the failed poll returns the gauges are those of its start.
C1_FailedPollKeepsGauges ==
  /\ [](pollerPc \in BeforeSet => gauges = gaugesAtPollStart)
  /\ [](pollerPc = "set" => Decodes(resp.body))
  /\ [][(pollerPc \in BeforeSet /\ pollerPc' = "select") => gauges' = gaugesAtPollStart]_vars

\* A poll has failed after an earlier one set co2 to 500: the gauge still reads 500.
C1_Witness ==
  /\ pollerPc = "select"
  /\ lastPoll = "failed"
  /\ gauges["Co2Gauge"] = F(500, 0)

\* C2: after a successful poll each gauge equals the payload's field (an int
\* field as a float), and a gauge whose field is absent is zero, also when it
\* held another value from an earlier poll.
C2_SuccessfulPollSetsAll == AllSet => GaugesShow(resp.body)

\* {"temp":21.5,"co2":612,"score":88} after a full reading: pm25 was 3 and is 0.
C2_Witness ==
  /\ AllSet
  /\ resp.body = BodyScenario
  /\ gaugesAtPollStart["PM25Gauge"] = F(3, 0)
  /\ gauges["PM25Gauge"] = FloatZero
  /\ gauges["TempGauge"] = F(21, 5)
  /\ gauges["Co2Gauge"] = F(612, 0)

\* The steps of the program itself: of main, of the poller, of the server.
ProgramStep == MainStep \/ PollerStep \/ PollerDone \/ ServerStep

\* C3: when the server goroutine has failed to bind, the process ends without
\* a termination signal: as long as no signal has come it has exited, or some
\* goroutine of it can still take a step towards the exit.
C3_BindFailureHalts ==
  (groupErr # "" /\ ~signalled) => (mainPc = "exited" \/ ENABLED ProgramStep)

C5_FailedPollDoesNotEscalate ==
  /\ [][(pollerPc \in BeforeSet /\ pollerPc' \notin InPoll) =>
          /\ pollerPc' = "select"
          /\ UNCHANGED << signalled, groupErr, groupCancelled, serverPc, inShutdown, mainPc >>]_vars
  /\ [](groupErr # "" => serverPc = "returned")
  /\ [][(pollerPc = "select" /\ ~GctxDone /\ pollerPc' # "select") => pollerPc' = "newRequest"]_vars
  /\ []((pollerPc = "select" /\ lastPoll = "failed" /\ tickerC > 0 /\ Alive) => ENABLED PollerTick)

\* A poll has failed, the server serves, nothing is cancelled, a tick is pending.
C5_Witness ==
  /\ pollerPc = "select"
  /\ lastPoll = "failed"
  /\ tickerC > 0
  /\ ~GctxDone
  /\ serverPc = "serving"
  /\ mainPc = "awaitSignal"

\* C6: when a goroutine runs or a request is served, every gauge is
\* registered, exactly once, and the handler is installed; a request before
\* the first poll that decoded reads a sample of every gauge, each zero.
C6_RegisteredBeforeServing ==
  /\ \A m \in MetricNames : registry[m] <= 1
  /\ (pollerPc # "notStarted" \/ serverPc # "notStarted" \/ scrapePc # "idle") =>
       /\ handler
       /\ \A m \in MetricNames : registry[m] = 1
       /\ DOMAIN gauges = GaugeSet
  /\ (scrapePc = "gathering" /\ scrapeIdx > 0) =>
       /\ scrapeFirst.name = GaugeOpts[1].name
       /\ scrapeLast.name = GaugeOpts[scrapeIdx].name
       /\ decodedBodies = {} => (scrapeFirst.value = FloatZero /\ scrapeLast.value = FloatZero)

\* A request has read all fourteen gauges, after a failed poll and before any
\* poll that decoded.
C6_Witness ==
  /\ scrapePc = "gathering"
  /\ scrapeIdx = NumGauges
  /\ decodedBodies = {}
  /\ lastPoll = "failed"

\* C7: at most one poll is in flight, at most one tick is pending, and a poll
\* starts from the select by taking the one pending tick: none is left for a
\* poll right after it.
C7_NoOverlapNoBurst ==
  /\ [](inFlight <= 1 /\ tickerC <= 1)
  /\ [](inFlight = 1 <=> pollerPc \in InPoll)
  /\ [][pollerPc' \in InPoll /\ pollerPc \notin InPoll =>
          pollerPc = "select" /\ inFlight = 0 /\ tickerC = 1 /\ tickerC' = 0]_vars

\* A slow poll: a tick is pending while the response body is read.
C7_Witness ==
  /\ pollerPc = "readAll"
  /\ inFlight = 1
  /\ tickerC = TickerCap

\* C8: every value a request reads is zero or the value a poll that decoded
\* gave that field.
C8_ScrapeReadsWrittenValues ==
  \A smp \in {scrapeFirst, scrapeLast} :
    smp # NoSample =>
      smp.value \in {FloatZero} \cup { Expected(smp.name, b) : b \in decodedBodies }

\* A request reads temp_c of the new reading (21.5) and then pm10_estimate of
\* the one before (4, which the new reading sets to 0).
C8_Witness ==
  /\ scrapePc = "gathering"
  /\ scrapeFirst = Sample("temp_c", F(21, 5))
  /\ scrapeLast = Sample("pm10_estimate", F(4, 0))

\* C9, as stated: once gctx is done the poller returns, and starts no poll.
C9_NoPollAfterCancel ==
  /\ (GctxDone /\ pollerPc \notin {"notStarted", "returned"}) ~> (pollerPc = "returned")
  /\ [][GctxDone => ~(pollerPc = "select" /\ pollerPc' = "newRequest")]_vars

\* C9, amended: once gctx is done the poller returns; a select that finds a
\* tick pending may still start a poll, and such a poll fails at Do at the
\* latest and sets no gauge.
C9_ReturnsAfterCancel ==
  /\ (GctxDone /\ pollerPc \notin {"notStarted", "returned"}) ~> (pollerPc = "returned")
  /\ []((doneAtPollStart /\ pollerPc \in InPoll) =>
          (pollerPc \in {"newRequest", "do"} /\ gauges = gaugesAtPollStart))

\* A poll started after gctx was done is at Do.
C9_Witness ==
  /\ doneAtPollStart
  /\ pollerPc = "do"

\* C10: the status code decides nothing: a body that was read is decoded
\* whatever the status, the poll goes on to its Set calls exactly when the
\* body decodes, and a response that is not 2xx overwrites every gauge.
C10_StatusIgnored ==
  /\ [](pollerPc = "readAll" => ENABLED (PollerReadAll /\ pollerPc' = "unmarshal"))
  /\ [][(pollerPc = "unmarshal" /\ pollerPc' # "unmarshal") =>
          (pollerPc' = IF Decodes(resp.body) THEN "set" ELSE "select")]_vars
  /\ []((AllSet /\ resp.status \notin 200..299) => GaugesShow(resp.body))

\* 404 with {"error":"not found"} after a reading: every gauge is zero again.
C10_Witness ==
  /\ AllSet
  /\ resp.status = 404
  /\ resp.body = BodyError
  /\ gaugesAtPollStart["Co2Gauge"] = F(612, 0)
  /\ \A g \in GaugeSet : gauges[g] = FloatZero

=============================================================================
